---- MODULE Spec2Model ----
(***************************************************************************)
(* Model of the keploy wire-protocol interception engine:                  *)
(*   pkg/proxy/integrations/mysqlparser/comInitDb.go                       *)
(* The RECORD relay (encodePostgresOutgoing with its two ReadBuffConn      *)
(* reader goroutines) and the TEST match/replay loop                       *)
(* (decodePostgresOutgoing) are modelled as state machines; the framing,   *)
(* base64 and startup detection they use are operators over byte           *)
(* sequences.  Bytes are integers 0..255, Go strings are sequences of      *)
(* integers, a Go slice index i (0-based) is position i+1 of a sequence.   *)
(***************************************************************************)
EXTENDS Integers, Sequences, FiniteSets, TLC

VARIABLES
    mode,                   \* models.GetMode()
    requestBuffer,          \* first buffer of the session, handed to ProcessOutgoing
    pc,                     \* position of the session's control loop
    retErr,                 \* error returned by encode/decodePostgresOutgoing
    pgRequests,             \* RECORD: []models.Backend; TEST: [][]byte
    pgResponses,            \* RECORD: []models.Frontend
    isPreviousChunkRequest, \* RECORD
    reqTimestampMock,       \* RECORD
    resTimestampMock,       \* RECORD
    mocks,                  \* every call of h.AppendMocks, in order
    destWritten,            \* every destConn.Write, in order
    clientWritten,          \* every clientConn.Write, in order
    clientClosed,           \* clientConn.Close() was called
    destClosed,             \* destConn.Close() was called
    rd,                     \* RECORD: the two ReadBuffConn goroutines
    terminateInitiated,     \* h.IsUserAppTerminateInitiated()
    sigPending,             \* a signal is buffered in this iteration's sigChan
    nReads,                 \* number of util.ReadBytes calls that returned
    nEvents,                \* RECORD: number of reads and errors the relay took
    lastEvent,              \* RECORD: the read or error the relay took last
    lastRead,               \* TEST: (buffer, err) of the last util.ReadBytes
    burst,                  \* TEST: chunks read since the burst began
    matchCalls,             \* TEST: every call of matchingReadablePG, in order
    input,                  \* the buffer a function is applied to on its own
    output                  \* what that function returned

vars == <<mode, requestBuffer, pc, retErr, pgRequests, pgResponses,
          isPreviousChunkRequest, reqTimestampMock, resTimestampMock, mocks,
          destWritten, clientWritten, clientClosed, destClosed, rd,
          terminateInitiated, sigPending, nReads, nEvents,
          lastEvent, lastRead, burst, matchCalls, input, output>>

(***************************************************************************)
(* Bounds of the model.                                                    *)
(***************************************************************************)
MaxReads == 3

MaxBursts == 2

\* frames per buffer when the framing is applied on its own
MaxFrames == 2

\* bytes of an argument of decodeComInitDb
MaxData == 4

(***************************************************************************)
(* Inputs.  Every buffer is a concrete byte sequence.                      *)
(***************************************************************************)
\* 8 bytes, protocol version 3.0 at offset 4: a startup packet
StartupBuf == <<0, 0, 0, 8, 0, 3, 0, 0>>

\* 'Q', length 5 (1 body byte): one whole frame, 6 bytes
QueryBuf == <<81, 0, 0, 0, 5, 1>>

\* 'Q', length 9 declared, only 1 body byte present
TruncatedBuf == <<81, 0, 0, 0, 9, 1>>

\* 'S', length 4: one whole frame with an empty body, 5 bytes
SyncBuf == <<83, 0, 0, 0, 4>>

\* 'C' length 5, then 'Z' length 5: two whole frames, 12 bytes
CompleteReadyBuf == <<67, 0, 0, 0, 5, 1, 90, 0, 0, 0, 5, 73>>

\* the single byte 'N'
NoticeBuf == <<78>>

InitBuffers == {<<>>, StartupBuf}

ClientBuffers == {StartupBuf, QueryBuf, TruncatedBuf, SyncBuf}

DestBuffers == {CompleteReadyBuf, NoticeBuf, TruncatedBuf}

ReadErrors == {"EOF", "closed", "reset"}

Conns == {"client", "dest"}

BuffersOf(c) == IF c = "client" THEN ClientBuffers ELSE DestBuffers

(***************************************************************************)
(* Byte-level helpers.                                                     *)
(***************************************************************************)
\* binary.BigEndian.Uint32(buffer[i:]) for a 0-based offset i
Uint32(buffer, i) ==
    buffer[i + 1] * 16777216 + buffer[i + 2] * 65536 + buffer[i + 3] * 256 + buffer[i + 4]

\* PostgresParser.OutgoingType
OutgoingType(buffer) ==
    IF Len(buffer) < 8 THEN FALSE
    ELSE LET version == Uint32(buffer, 4)
         IN  IF version = 80877103 THEN TRUE ELSE version = 196608

\* isStartupPacket lives outside src/; section 4.1 of the spec gives its contract
isStartupPacket(buffer) ==
    /\ Len(buffer) >= 8
    /\ Uint32(buffer, 4) \in {80877103, 196608}

\* base64.StdEncoding.EncodeToString: sextets 0..63, 64 is the padding '='
EncodeToString(buffer) ==
    LET n == Len(buffer)
        byte(k) == IF k <= n THEN buffer[k] ELSE 0
        sextet(k) ==
            LET g  == (k - 1) \div 4
                b0 == byte(3 * g + 1)
                b1 == byte(3 * g + 2)
                b2 == byte(3 * g + 3)
                j  == (k - 1) % 4
            IN  CASE j = 0 -> b0 \div 4
                  [] j = 1 -> (b0 % 4) * 16 + (b1 \div 16)
                  [] j = 2 -> IF 3 * g + 2 <= n THEN (b1 % 16) * 4 + (b2 \div 64) ELSE 64
                  [] OTHER -> IF 3 * g + 3 <= n THEN b2 % 64 ELSE 64
    IN  [k \in 1..(4 * ((n + 2) \div 3)) |-> sextet(k)]

\* the Go string "Tg==", the encoding of the single byte 'N'
TgEq == <<19, 32, 64, 64>>

(***************************************************************************)
(* RECORD: framing of a client read (encodePostgresOutgoing, request side) *)
(***************************************************************************)
\* the for loop over the frames of a client read: the PacketTypes collected,
\* the index i at which the loop stopped and the end of the last slice
\* buffer[i : i+BodyLen+5] it took (0 when it took none)
RECURSIVE BackendFrames(_, _, _)
BackendFrames(buffer, i, types) ==
    IF ~(i < Len(buffer) - 5) THEN [PacketTypes |-> types, i |-> i, end |-> i]
    ELSE LET BodyLen == Uint32(buffer, i + 1) - 4
         IN  IF Len(buffer) < i + BodyLen + 5
             THEN [PacketTypes |-> types, i |-> i, end |-> i]
             ELSE BackendFrames(buffer, i + 5 + BodyLen, Append(types, buffer[i + 1]))

\* len(PostgresDecoderBackend(pgMock)): the codec lives outside src/.  Per
\* section 4.3 of the spec the encoder reproduces the decoded frames byte for
\* byte unless the variant is one the codec loses a field of (lossy).
BackendEncodedLen(frames, lossy) ==
    IF lossy /\ frames.PacketTypes # <<>> THEN frames.i + 1 ELSE frames.i

\* Besides the fields of models.Backend / models.Frontend an entry keeps the
\* time it was recorded (at), the buffer it was built from and
\* len(afterEncoded); NotEncoded stands for an entry that was not re-encoded.
NotEncoded == -1

\* the entry appended for the first buffer of the session
StartupRequestEntry(buffer) ==
    [Identfier |-> "StartupRequest", PacketTypes |-> <<>>,
     Length |-> Len(buffer), Payload |-> EncodeToString(buffer), at |-> 0,
     buffer |-> buffer, afterEncoded |-> NotEncoded]

\* a guard that never keeps the raw payload
BackendNeedsPayload_Never(afterEncodedLen, buffer, types) == FALSE

\* the round-trip guard of a client read
BackendNeedsPayload(afterEncodedLen, buffer, types) ==
    afterEncodedLen # Len(buffer) /\ types[1] # 112

\* the guard indexes PacketTypes[0] only when the lengths differ
BackendGuardPanics(afterEncodedLen, buffer, types) ==
    afterEncodedLen # Len(buffer) /\ types = <<>>

\* what a client read adds to pgRequests: [panic, entries]
RequestEntries(buffer, lossy, at) ==
    LET bufStr == EncodeToString(buffer)
    IN  IF bufStr = <<>> THEN [panic |-> FALSE, entries |-> <<>>]
        ELSE IF ~isStartupPacket(buffer) /\ Len(buffer) > 5
        THEN LET frames == BackendFrames(buffer, 0, <<>>)
                 afterEncodedLen == BackendEncodedLen(frames, lossy)
             IN  IF BackendGuardPanics(afterEncodedLen, buffer, frames.PacketTypes)
                 THEN [panic |-> TRUE, entries |-> <<>>]
                 ELSE [panic |-> FALSE,
                       entries |-> << [Identfier |-> "ClientRequest",
                                       PacketTypes |-> frames.PacketTypes,
                                       Length |-> Len(requestBuffer),
                                       Payload |-> IF BackendNeedsPayload(afterEncodedLen, buffer,
                                                                          frames.PacketTypes)
                                                   THEN bufStr ELSE <<>>,
                                       at |-> at, buffer |-> buffer,
                                       afterEncoded |-> afterEncodedLen] >>]
        ELSE IF isStartupPacket(buffer)
        THEN [panic |-> FALSE,
              entries |-> << [Identfier |-> "StartupRequest", PacketTypes |-> <<>>,
                              Length |-> 0, Payload |-> bufStr, at |-> at,
                              buffer |-> buffer, afterEncoded |-> NotEncoded] >>]
        ELSE [panic |-> FALSE, entries |-> <<>>]

(***************************************************************************)
(* RECORD: framing of a destination read (response side)                   *)
(***************************************************************************)
\* The response loop slices buffer[i : i+BodyLen+5] without comparing it to
\* len(buffer).  Past the length the slice expression panics when it also
\* passes the capacity, and otherwise yields bytes beyond the read, which
\* TranslateToReadableResponse rejects ("err") or accepts ("ok"): over names
\* the outcome; end is the end of the last slice expression evaluated.
RECURSIVE FrontendFrames(_, _, _, _)
FrontendFrames(buffer, i, types, over) ==
    IF ~(i < Len(buffer) - 5)
    THEN [PacketTypes |-> types, i |-> i, end |-> i, panic |-> FALSE]
    ELSE LET BodyLen == Uint32(buffer, i + 1) - 4
         IN  IF i + BodyLen + 5 > Len(buffer)
             THEN CASE over = "panic" -> [PacketTypes |-> types, i |-> i,
                                          end |-> i + BodyLen + 5, panic |-> TRUE]
                    [] over = "err"   -> [PacketTypes |-> types, i |-> i,
                                          end |-> i + BodyLen + 5, panic |-> FALSE]
                    [] OTHER          -> [PacketTypes |-> Append(types, buffer[i + 1]),
                                          i |-> i + 5 + BodyLen,
                                          end |-> i + BodyLen + 5, panic |-> FALSE]
             ELSE FrontendFrames(buffer, i + 5 + BodyLen, Append(types, buffer[i + 1]), over)

SliceOutcomes == {"panic", "err", "ok"}

\* len(PostgresDecoderFrontend(pgMock)), as BackendEncodedLen
FrontendEncodedLen(frames, lossy) ==
    IF lossy /\ frames.PacketTypes # <<>> THEN frames.i + 1 ELSE frames.i

\* len(pgMock.DataRows): one row per decoded 'D' frame
DataRowCount(types) == Cardinality({k \in 1..Len(types) : types[k] = 68})

\* the round-trip guard of a destination read
FrontendNeedsPayload(afterEncodedLen, buffer, types) ==
    (afterEncodedLen # Len(buffer) /\ types[1] # 82) \/ DataRowCount(types) > 0

FrontendGuardPanics(afterEncodedLen, buffer, types) ==
    afterEncodedLen # Len(buffer) /\ types = <<>>

\* what a destination read adds to pgResponses: [panic, entries]
ResponseEntries(buffer, lossy, over, at) ==
    LET bufStr == EncodeToString(buffer)
    IN  IF bufStr = <<>> THEN [panic |-> FALSE, entries |-> <<>>]
        ELSE IF ~isStartupPacket(buffer) /\ Len(buffer) > 5 /\ bufStr # TgEq
        THEN LET frames == FrontendFrames(buffer, 0, <<>>, over)
                 afterEncodedLen == FrontendEncodedLen(frames, lossy)
             IN  IF frames.panic \/ FrontendGuardPanics(afterEncodedLen, buffer, frames.PacketTypes)
                 THEN [panic |-> TRUE, entries |-> <<>>]
                 ELSE [panic |-> FALSE,
                       entries |-> << [Identfier |-> "ServerResponse",
                                       PacketTypes |-> frames.PacketTypes,
                                       Length |-> Len(requestBuffer),
                                       Payload |-> IF FrontendNeedsPayload(afterEncodedLen, buffer,
                                                                           frames.PacketTypes)
                                                   THEN bufStr ELSE <<>>,
                                       at |-> at, buffer |-> buffer,
                                       afterEncoded |-> afterEncodedLen] >>]
        ELSE IF bufStr = TgEq \/ Len(buffer) <= 5
        THEN [panic |-> FALSE,
              entries |-> << [Identfier |-> "", PacketTypes |-> <<>>, Length |-> 0,
                              Payload |-> bufStr, at |-> at, buffer |-> buffer,
                              afterEncoded |-> NotEncoded] >>]
        ELSE [panic |-> FALSE, entries |-> <<>>]

(***************************************************************************)
(* State after construction: ProcessOutgoing is about to be called.        *)
(***************************************************************************)
Modes == {"RECORD", "TEST", "OTHER"}

\* variables of the functions that are applied on their own
fnVars == <<input, output>>

\* variables of a session
sessionVars == <<mode, requestBuffer, pc, retErr, pgRequests, pgResponses,
                 isPreviousChunkRequest, reqTimestampMock, resTimestampMock,
                 mocks, destWritten, clientWritten, clientClosed, destClosed,
                 rd, terminateInitiated, sigPending, nReads, nEvents,
                 lastEvent, lastRead, burst, matchCalls>>

\* no function was applied yet
NoOutput == [fn |-> "none"]

NotStarted == [st |-> "notStarted", buf |-> <<>>, err |-> "nil"]

Reading == [st |-> "reading", buf |-> <<>>, err |-> "nil"]

\* the session before ProcessOutgoing is called
Idle(m) ==
    /\ mode = m
    /\ requestBuffer \in InitBuffers
    /\ pc = "start"
    /\ retErr = "nil"
    /\ pgRequests = <<>>
    /\ pgResponses = <<>>
    /\ isPreviousChunkRequest = FALSE
    /\ reqTimestampMock = 0
    /\ resTimestampMock = -1
    /\ mocks = <<>>
    /\ destWritten = <<>>
    /\ clientWritten = <<>>
    /\ clientClosed = FALSE
    /\ destClosed = FALSE
    /\ rd = [c \in Conns |-> NotStarted]
    /\ terminateInitiated = FALSE
    /\ sigPending = FALSE
    /\ nReads = 0
    /\ nEvents = 0
    /\ lastEvent = "none"
    /\ lastRead = [buffer |-> <<>>, err |-> "nil"]
    /\ burst = <<>>
    /\ matchCalls = <<>>

InitIn(m) ==
    /\ Idle(m)
    /\ input = <<>>
    /\ output = NoOutput

Init == \E m \in Modes : InitIn(m)

\* variables only the TEST loop writes
testVars == <<lastRead, burst, matchCalls>>

\* variables only the RECORD relay writes
recordVars == <<pgResponses, isPreviousChunkRequest, reqTimestampMock,
                resTimestampMock, mocks, clientClosed, destClosed, rd,
                sigPending, nEvents, lastEvent>>

(***************************************************************************)
(* The environment.                                                        *)
(***************************************************************************)
\* the user application starts to terminate: IsUserAppTerminateInitiated()
\* answers true from now on
UserAppTerminate ==
    /\ ~terminateInitiated
    /\ pc \notin {"start", "terminated", "panicked"}
    /\ terminateInitiated' = TRUE
    /\ UNCHANGED <<mode, requestBuffer, pc, retErr, pgRequests, pgResponses,
                   isPreviousChunkRequest, reqTimestampMock, resTimestampMock,
                   mocks, destWritten, clientWritten, clientClosed, destClosed,
                   rd, sigPending, nReads, nEvents, lastEvent,
                   lastRead, burst, matchCalls>>
    /\ UNCHANGED fnVars

\* os.Interrupt or SIGTERM arrives while the relay blocks in select: it is
\* buffered in the sigChan this iteration made.  A signal that arrives while
\* a case runs goes to an earlier iteration's channel and is never received.
\* nEvents and lastEvent follow the reads and errors the relay takes; a
\* signal is not numbered, so any number of signals may arrive.
Interrupt ==
    /\ pc = "awaitingEvent"
    /\ ~sigPending
    /\ sigPending' = TRUE
    /\ UNCHANGED <<mode, requestBuffer, pc, retErr, pgRequests, pgResponses,
                   isPreviousChunkRequest, reqTimestampMock, resTimestampMock,
                   mocks, destWritten, clientWritten, clientClosed, destClosed,
                   rd, terminateInitiated, nReads, nEvents, lastEvent,
                   lastRead, burst, matchCalls>>
    /\ UNCHANGED fnVars

(***************************************************************************)
(* RECORD: encodePostgresOutgoing up to the relay loop.                    *)
(***************************************************************************)
RecordStart ==
    /\ pc = "start"
    /\ mode = "RECORD"
    /\ \E writeOK \in BOOLEAN :
        /\ pgRequests' = IF EncodeToString(requestBuffer) # <<>>
                         THEN <<StartupRequestEntry(requestBuffer)>>
                         ELSE <<>>
        /\ IF writeOK
           THEN /\ destWritten' = Append(destWritten, requestBuffer)
                /\ rd' = [c \in Conns |-> Reading]
                /\ pc' = "awaitingEvent"
                /\ retErr' = retErr
           ELSE /\ destWritten' = destWritten
                /\ rd' = rd
                /\ pc' = "terminated"
                /\ retErr' = "writeErr"
    /\ UNCHANGED <<mode, requestBuffer, pgResponses, isPreviousChunkRequest,
                   reqTimestampMock, resTimestampMock, mocks, clientWritten,
                   clientClosed, destClosed, terminateInitiated, sigPending,
                   nReads, nEvents, lastEvent, lastRead, burst,
                   matchCalls>>
    /\ UNCHANGED fnVars

(***************************************************************************)
(* RECORD: ReadBuffConn, one goroutine per connection.                     *)
(***************************************************************************)
\* util.ReadBytes returns a buffer; the goroutine blocks on bufferChannel
ReadOk(c) ==
    /\ rd[c].st = "reading"
    /\ nReads < MaxReads
    /\ \E b \in BuffersOf(c) :
        rd' = [rd EXCEPT ![c] = [st |-> "sendBuf", buf |-> b, err |-> "nil"]]
    /\ nReads' = nReads + 1
    /\ UNCHANGED <<mode, requestBuffer, pc, retErr, pgRequests, pgResponses,
                   isPreviousChunkRequest, reqTimestampMock, resTimestampMock,
                   mocks, destWritten, clientWritten, clientClosed, destClosed,
                   terminateInitiated, sigPending, nEvents,
                   lastEvent, lastRead, burst, matchCalls>>
    /\ UNCHANGED fnVars

\* where ReadBuffConn goes after util.ReadBytes returned (nil, e)
AfterReadError(e, terminate) ==
    IF ~terminate
    THEN IF e = "EOF"
         THEN [st |-> "done", buf |-> <<>>, err |-> e]
         ELSE [st |-> "sendErr", buf |-> <<>>, err |-> e]
    ELSE [st |-> "sendBuf", buf |-> <<>>, err |-> e]

\* util.ReadBytes returns an error
ReadFail(c) ==
    /\ rd[c].st = "reading"
    /\ nReads < MaxReads
    /\ \E e \in ReadErrors :
        rd' = [rd EXCEPT ![c] = AfterReadError(e, terminateInitiated)]
    /\ nReads' = nReads + 1
    /\ UNCHANGED <<mode, requestBuffer, pc, retErr, pgRequests, pgResponses,
                   isPreviousChunkRequest, reqTimestampMock, resTimestampMock,
                   mocks, destWritten, clientWritten, clientClosed, destClosed,
                   terminateInitiated, sigPending, nEvents,
                   lastEvent, lastRead, burst, matchCalls>>
    /\ UNCHANGED fnVars

(***************************************************************************)
(* RECORD: the relay loop, one action per select case.                     *)
(***************************************************************************)
\* time.Now() when the case of event number k starts, and when it ends
StartTime(k) == 2 * k

\* a response timestamp taken before the case starts
EndTime_BeforeStart(k) == 2 * k - 1

EndTime(k) == 2 * k + 1

\* the Mock handed to h.AppendMocks; stored tells whether the call succeeded
Mock(appendOK, case) ==
    [PostgresRequests |-> pgRequests, PostgresResponses |-> pgResponses,
     ReqTimestampMock |-> reqTimestampMock, ResTimestampMock |-> resTimestampMock,
     stored |-> appendOK, case |-> case]

\* the final flush without the length tests
SignalFlushDue_NoLengthCheck == ~isPreviousChunkRequest

\* the final flush without the "last chunk was a response" test
SignalFlushDue_NoPreviousCheck == Len(pgRequests) > 0 /\ Len(pgResponses) > 0

\* the condition of the final flush, case <-sigChan
SignalFlushDue ==
    ~isPreviousChunkRequest /\ Len(pgRequests) > 0 /\ Len(pgResponses) > 0

\* the flush of a client read without the "last chunk was a response" test
ClientFlushDue_NoPreviousCheck == Len(pgRequests) > 0 /\ Len(pgResponses) > 0

\* the condition of the flush in case buffer := <-clientBufferChannel
ClientFlushDue ==
    ~isPreviousChunkRequest /\ Len(pgRequests) > 0 /\ Len(pgResponses) > 0

\* a flush that keeps the chunk when AppendMocks failed, to append it again
AfterFlush_KeepsOnFailure(appendOK, entries) == IF appendOK THEN <<>> ELSE entries

\* an accumulator after the flush of a client read: emptied whether or not
\* AppendMocks returned an error
AfterFlush(appendOK, entries) == <<>>

\* a write that drops the last byte of the buffer
Forward_Truncated(written, buffer) ==
    Append(written, SubSeq(buffer, 1, Len(buffer) - 1))

\* destConn.Write(buffer) / clientConn.Write(buffer) that succeeded: the
\* peer's log of writes gains the buffer as it was delivered
Forward(written, buffer) == Append(written, buffer)

\* case <-sigChan
HandleSignal ==
    /\ pc = "awaitingEvent"
    /\ sigPending
    /\ sigPending' = FALSE
    /\ IF SignalFlushDue
       THEN /\ \E appendOK \in BOOLEAN :
                 mocks' = Append(mocks, Mock(appendOK, "shutdownSignal"))
            /\ pgRequests' = <<>>
            /\ pgResponses' = <<>>
            /\ clientClosed' = TRUE
            /\ destClosed' = TRUE
            /\ pc' = "terminated"
            /\ retErr' = "nil"
       ELSE UNCHANGED <<mocks, pgRequests, pgResponses, clientClosed,
                        destClosed, pc, retErr>>
    /\ UNCHANGED <<mode, requestBuffer, isPreviousChunkRequest,
                   reqTimestampMock, resTimestampMock, destWritten,
                   clientWritten, rd, terminateInitiated, nReads, nEvents,
                   lastEvent, lastRead, burst, matchCalls>>
    /\ UNCHANGED fnVars

\* case buffer := <-clientBufferChannel
ClientRead ==
    /\ pc = "awaitingEvent"
    /\ rd["client"].st = "sendBuf"
    /\ LET buffer == rd["client"].buf
           flush  == ClientFlushDue
       IN  /\ rd' = [rd EXCEPT !["client"] = Reading]
           /\ sigPending' = FALSE
           /\ nEvents' = nEvents + 1
           /\ lastEvent' = "clientRead"
           /\ \E writeOK \in BOOLEAN, appendOK \in BOOLEAN, lossy \in BOOLEAN :
                IF ~writeOK
                THEN /\ pc' = "terminated"
                     /\ retErr' = "writeErr"
                     /\ UNCHANGED <<destWritten, mocks, pgRequests, pgResponses,
                                    isPreviousChunkRequest>>
                ELSE LET added == RequestEntries(buffer, lossy, nEvents + 1)
                         kept  == IF flush THEN AfterFlush(appendOK, pgRequests)
                                  ELSE pgRequests
                     IN  /\ destWritten' = Forward(destWritten, buffer)
                         /\ mocks' = IF flush
                                     THEN Append(mocks, Mock(appendOK, "clientRead"))
                                     ELSE mocks
                         /\ pgResponses' = IF flush THEN AfterFlush(appendOK, pgResponses)
                                          ELSE pgResponses
                         /\ pgRequests' = kept \o added.entries
                         /\ IF added.panic
                            THEN /\ pc' = "panicked"
                                 /\ UNCHANGED <<retErr, isPreviousChunkRequest>>
                            ELSE /\ isPreviousChunkRequest' = TRUE
                                 /\ UNCHANGED <<pc, retErr>>
    /\ UNCHANGED <<mode, requestBuffer, reqTimestampMock, resTimestampMock,
                   clientWritten, clientClosed, destClosed, terminateInitiated,
                   nReads, lastRead, burst, matchCalls>>
    /\ UNCHANGED fnVars

\* case buffer := <-destBufferChannel
DestRead ==
    /\ pc = "awaitingEvent"
    /\ rd["dest"].st = "sendBuf"
    /\ LET buffer == rd["dest"].buf
       IN  /\ rd' = [rd EXCEPT !["dest"] = Reading]
           /\ sigPending' = FALSE
           /\ nEvents' = nEvents + 1
           /\ lastEvent' = "destRead"
           /\ reqTimestampMock' = IF isPreviousChunkRequest
                                  THEN StartTime(nEvents + 1)
                                  ELSE reqTimestampMock
           /\ \E writeOK \in BOOLEAN, lossy \in BOOLEAN, over \in SliceOutcomes :
                IF ~writeOK
                THEN /\ pc' = "terminated"
                     /\ retErr' = "writeErr"
                     /\ UNCHANGED <<clientWritten, pgResponses, resTimestampMock,
                                    isPreviousChunkRequest>>
                ELSE LET added == ResponseEntries(buffer, lossy, over, nEvents + 1)
                     IN  /\ clientWritten' = Forward(clientWritten, buffer)
                         /\ pgResponses' = pgResponses \o added.entries
                         /\ IF added.panic
                            THEN /\ pc' = "panicked"
                                 /\ UNCHANGED <<retErr, resTimestampMock,
                                                isPreviousChunkRequest>>
                            ELSE /\ resTimestampMock' = EndTime(nEvents + 1)
                                 /\ isPreviousChunkRequest' = FALSE
                                 /\ UNCHANGED <<pc, retErr>>
    /\ UNCHANGED <<mode, requestBuffer, pgRequests, mocks, destWritten,
                   clientClosed, destClosed, terminateInitiated, nReads,
                   lastRead, burst, matchCalls>>
    /\ UNCHANGED fnVars

\* case err := <-errChannel, sent by the reader of connection c
IoError(c) ==
    /\ pc = "awaitingEvent"
    /\ rd[c].st = "sendErr"
    /\ rd' = [rd EXCEPT ![c] = [st |-> "done", buf |-> <<>>, err |-> rd[c].err]]
    /\ sigPending' = FALSE
    /\ nEvents' = nEvents + 1
    /\ lastEvent' = "ioError"
    /\ pc' = "terminated"
    /\ retErr' = rd[c].err
    /\ UNCHANGED <<mode, requestBuffer, pgRequests, pgResponses,
                   isPreviousChunkRequest, reqTimestampMock, resTimestampMock,
                   mocks, destWritten, clientWritten, clientClosed, destClosed,
                   terminateInitiated, nReads, lastRead, burst,
                   matchCalls>>
    /\ UNCHANGED fnVars

NextRecord ==
    \/ RecordStart
    \/ UserAppTerminate
    \/ Interrupt
    \/ \E c \in Conns : ReadOk(c)
    \/ \E c \in Conns : ReadFail(c)
    \/ HandleSignal
    \/ ClientRead
    \/ DestRead
    \/ \E c \in Conns : IoError(c)

SpecRecord == InitIn("RECORD") /\ [][NextRecord]_vars

(***************************************************************************)
(* TEST: encoding of a matched response entry.                             *)
(***************************************************************************)
\* base64.StdEncoding.DecodeString, the inverse of EncodeToString; a string
\* whose length is no multiple of 4 is rejected
DecodeString(str) ==
    LET n == Len(str)
        groups == n \div 4
        pads == Cardinality({k \in 1..n : str[k] = 64})
        six(k) == IF str[k] = 64 THEN 0 ELSE str[k]
        octet(k) ==
            LET g == (k - 1) \div 3
                s0 == six(4 * g + 1)
                s1 == six(4 * g + 2)
                s2 == six(4 * g + 3)
                s3 == six(4 * g + 4)
                j  == (k - 1) % 3
            IN  CASE j = 0 -> s0 * 4 + (s1 \div 16)
                  [] j = 1 -> (s1 % 16) * 16 + (s2 \div 4)
                  [] OTHER -> (s2 % 4) * 64 + s3
    IN  IF n % 4 # 0 \/ pads > 2
        THEN [err |-> TRUE, bytes |-> <<>>]
        ELSE [err |-> FALSE, bytes |-> [k \in 1..(3 * groups - pads) |-> octet(k)]]

\* PostgresDecoder(payload) lives outside src/: it decodes the base64 payload
PostgresDecoder(payload) == DecodeString(payload)

\* PostgresDecoderFrontend(entry) lives outside src/: it re-encodes the
\* structural fields; here every packet type becomes a frame with an empty body
PostgresDecoderFrontend(entry) ==
    LET types == entry.PacketTypes
    IN  [err |-> FALSE,
         bytes |-> [k \in 1..(5 * Len(types)) |->
                       IF (k - 1) % 5 = 0 THEN types[((k - 1) \div 5) + 1]
                       ELSE IF (k - 1) % 5 = 4 THEN 4 ELSE 0]]

\* structural replay chosen on the packet types alone
EncodesStructurally_IgnoresPayload(pgResponse) == Len(pgResponse.PacketTypes) > 0

\* whether the replay loop re-encodes the entry from its structural fields
EncodesStructurally(pgResponse) ==
    Len(pgResponse.PacketTypes) > 0 /\ Len(pgResponse.Payload) = 0

\* encoded, err of one iteration of the replay loop
ReplayEncode(pgResponse) ==
    IF EncodesStructurally(pgResponse)
    THEN PostgresDecoderFrontend(pgResponse)
    ELSE PostgresDecoder(pgResponse.Payload)

\* the replay loop over pgResponses[k..]: the buffers written to the client
\* and the error it returned; the write of entry number failAt fails
RECURSIVE Replay(_, _, _, _)
Replay(pgResps, k, failAt, written) ==
    IF k > Len(pgResps) THEN [written |-> written, err |-> "nil"]
    ELSE LET enc == ReplayEncode(pgResps[k])
         IN  IF enc.err THEN [written |-> written, err |-> "decodeErr"]
             ELSE IF k = failAt THEN [written |-> written, err |-> "writeErr"]
             ELSE Replay(pgResps, k + 1, failAt, Append(written, enc.bytes))

(***************************************************************************)
(* TEST: inputs.                                                           *)
(***************************************************************************)
TestBuffers == {QueryBuf, SyncBuf}

TestReadErrors == {"timeout", "EOF", "reset"}

\* 'D', length 5 (1 body byte)
DataRowBuf == <<68, 0, 0, 0, 5, 7>>

\* response entries a recorded mock may hold: structural fields only,
StructuralEntry == [PacketTypes |-> <<67>>, Payload |-> <<>>]

\* a raw payload only,
RawEntry == [PacketTypes |-> <<>>, Payload |-> EncodeToString(NoticeBuf)]

\* packet types and a raw payload,
BothEntry == [PacketTypes |-> <<68>>, Payload |-> EncodeToString(DataRowBuf)]

\* and a payload that is no base64
MalformedEntry == [PacketTypes |-> <<>>, Payload |-> <<19>>]

\* the response lists the Matcher may return
MockedResponses ==
    { <<>>,
      <<StructuralEntry>>,
      <<BothEntry, RawEntry>>,
      <<StructuralEntry, MalformedEntry, RawEntry>> }

\* the real reply Passthrough relays back
PassthroughReplies == {CompleteReadyBuf}

(***************************************************************************)
(* TEST: decodePostgresOutgoing.                                           *)
(***************************************************************************)
TestStart ==
    /\ pc = "start"
    /\ mode = "TEST"
    /\ pgRequests' = <<requestBuffer>>
    /\ burst' = <<requestBuffer>>
    /\ pc' = "setDeadline"
    /\ UNCHANGED <<mode, requestBuffer, retErr, destWritten, clientWritten,
                   terminateInitiated, nReads, lastRead, matchCalls, recordVars>>
    /\ UNCHANGED fnVars

\* clientConn.SetReadDeadline at the top of the outer loop
SetReadDeadline ==
    /\ pc = "setDeadline"
    /\ \E ok \in BOOLEAN :
        IF ok THEN pc' = "readBurst" /\ retErr' = retErr
        ELSE pc' = "terminated" /\ retErr' = "deadlineErr"
    /\ UNCHANGED <<mode, requestBuffer, pgRequests, destWritten, clientWritten,
                   terminateInitiated, nReads, lastRead, burst, matchCalls,
                   recordVars>>
    /\ UNCHANGED fnVars

\* util.ReadBytes(clientConn) returns a buffer: it joins the burst
ReadClientOk ==
    /\ pc = "readBurst"
    /\ nReads < MaxReads
    /\ \E b \in TestBuffers :
        /\ lastRead' = [buffer |-> b, err |-> "nil"]
        /\ pgRequests' = Append(pgRequests, b)
        /\ burst' = Append(burst, b)
    /\ nReads' = nReads + 1
    /\ UNCHANGED <<mode, requestBuffer, pc, retErr, destWritten, clientWritten,
                   terminateInitiated, matchCalls, recordVars>>
    /\ UNCHANGED fnVars

\* what the inner loop does with a failed read: "return", "break" or "append"
OnReadError(e, terminate) ==
    IF ~terminate /\ e # "timeout" THEN "return"
    ELSE IF e = "timeout" THEN "break"
    ELSE "append"

\* util.ReadBytes(clientConn) returns (nil, e)
ReadClientFail ==
    /\ pc = "readBurst"
    /\ \E e \in TestReadErrors :
        LET todo == OnReadError(e, terminateInitiated)
        IN  /\ lastRead' = [buffer |-> <<>>, err |-> e]
            /\ CASE todo = "return" ->
                      /\ nReads < MaxReads
                      /\ nReads' = nReads + 1
                      /\ pc' = "terminated"
                      /\ retErr' = e
                      /\ pgRequests' = pgRequests
                 [] todo = "break" ->
                      /\ Len(matchCalls) < MaxBursts
                      /\ nReads' = nReads
                      /\ pc' = IF Len(pgRequests) = 0 THEN "setDeadline" ELSE "matching"
                      /\ retErr' = retErr
                      /\ pgRequests' = pgRequests
                 [] OTHER ->
                      /\ nReads < MaxReads
                      /\ nReads' = nReads + 1
                      /\ pc' = pc
                      /\ retErr' = retErr
                      /\ pgRequests' = Append(pgRequests, <<>>)
    /\ UNCHANGED <<mode, requestBuffer, destWritten, clientWritten,
                   terminateInitiated, burst, matchCalls, recordVars>>
    /\ UNCHANGED fnVars

\* one entry of matchCalls
MatchCall(result) ==
    [input |-> pgRequests, burst |-> burst, result |-> result,
     pgResponses |-> <<>>, written |-> <<>>, err |-> "nil"]

\* matchingReadablePG fails and the burst is passed through instead
MatchError_FallsBack ==
    /\ pc = "matching"
    /\ matchCalls' = Append(matchCalls, MatchCall("error"))
    /\ burst' = <<>>
    /\ destWritten' = destWritten \o pgRequests
    /\ \E reply \in PassthroughReplies : clientWritten' = Append(clientWritten, reply)
    /\ pc' = "setDeadline"
    /\ UNCHANGED <<mode, requestBuffer, pgRequests, retErr, terminateInitiated,
                   nReads, lastRead, recordVars>>
    /\ UNCHANGED fnVars

\* matchingReadablePG fails
MatchError ==
    /\ pc = "matching"
    /\ matchCalls' = Append(matchCalls, MatchCall("error"))
    /\ burst' = <<>>
    /\ pc' = "terminated"
    /\ retErr' = "matchErr"
    /\ UNCHANGED <<mode, requestBuffer, pgRequests, destWritten, clientWritten,
                   terminateInitiated, nReads, lastRead, recordVars>>
    /\ UNCHANGED fnVars

\* pgRequests after util.Passthrough returned without error
AfterPassthrough(reqs) == reqs

\* matchingReadablePG answers matched = false: util.Passthrough (outside
\* src/) writes the chunks to the destination and relays the reply
MatchMiss ==
    /\ pc = "matching"
    /\ matchCalls' = Append(matchCalls, MatchCall("unmatched"))
    /\ burst' = <<>>
    /\ \E ok \in BOOLEAN, reply \in PassthroughReplies :
        IF ok
        THEN /\ destWritten' = destWritten \o pgRequests
             /\ clientWritten' = Append(clientWritten, reply)
             /\ pgRequests' = AfterPassthrough(pgRequests)
             /\ pc' = "setDeadline"
             /\ retErr' = retErr
        ELSE /\ UNCHANGED <<destWritten, clientWritten, pgRequests>>
             /\ pc' = "terminated"
             /\ retErr' = "passthroughErr"
    /\ UNCHANGED <<mode, requestBuffer, terminateInitiated, nReads, lastRead,
                   recordVars>>
    /\ UNCHANGED fnVars

\* matchingReadablePG answers matched = true with pgResps: the replay loop
MatchHit ==
    /\ pc = "matching"
    /\ \E pgResps \in MockedResponses :
      \E failAt \in 0..Len(pgResps) :
        LET out == Replay(pgResps, 1, failAt, <<>>)
        IN  /\ matchCalls' = Append(matchCalls,
                                    [input |-> pgRequests, burst |-> burst,
                                     result |-> "matched", pgResponses |-> pgResps,
                                     written |-> out.written, err |-> out.err])
            /\ clientWritten' = clientWritten \o out.written
            /\ IF out.err = "nil"
               THEN /\ pgRequests' = <<>>
                    /\ pc' = "setDeadline"
                    /\ retErr' = retErr
               ELSE /\ pgRequests' = pgRequests
                    /\ pc' = "terminated"
                    /\ retErr' = out.err
    /\ burst' = <<>>
    /\ UNCHANGED <<mode, requestBuffer, destWritten, terminateInitiated,
                   nReads, lastRead, recordVars>>
    /\ UNCHANGED fnVars

NextTest ==
    \/ TestStart
    \/ UserAppTerminate
    \/ SetReadDeadline
    \/ ReadClientOk
    \/ ReadClientFail
    \/ MatchError
    \/ MatchMiss
    \/ MatchHit

SpecTest == InitIn("TEST") /\ [][NextTest]_vars

(***************************************************************************)
(* ProcessOutgoing with a mode that is neither RECORD nor TEST.            *)
(***************************************************************************)
\* a default branch that forwards the request buffer before returning
InvalidMode_Forwards ==
    /\ pc = "start"
    /\ mode \notin {"RECORD", "TEST"}
    /\ pc' = "terminated"
    /\ destWritten' = Append(destWritten, requestBuffer)
    /\ UNCHANGED <<mode, requestBuffer, retErr, pgRequests,
                   clientWritten, terminateInitiated, nReads, testVars,
                   recordVars>>
    /\ UNCHANGED fnVars

\* the default branch of the switch: the mode is logged, nothing else
InvalidMode ==
    /\ pc = "start"
    /\ mode \notin {"RECORD", "TEST"}
    /\ pc' = "terminated"
    /\ UNCHANGED <<mode, requestBuffer, retErr, pgRequests, destWritten,
                   clientWritten, terminateInitiated, nReads, testVars,
                   recordVars>>
    /\ UNCHANGED fnVars

Next == NextRecord \/ NextTest \/ InvalidMode

Spec == Init /\ [][Next]_vars

(***************************************************************************)
(* The framing of one read buffer, applied on its own to any buffer.       *)
(***************************************************************************)
\* a frame: the tag, the big-endian length (itself included), the body
Frame(tag, body) ==
    LET n == Len(body) + 4
    IN  <<tag, (n \div 16777216) % 256, (n \div 65536) % 256, (n \div 256) % 256, n % 256>>
        \o body

\* 'Q' and 'p' with a body of one byte, 'S' with an empty body, 'R' with a
\* body of four bytes, 'D' with a body of one byte
FrameSet ==
    {Frame(81, <<1>>), Frame(112, <<1>>), Frame(83, <<>>),
     Frame(82, <<0, 0, 0, 0>>), Frame(68, <<7>>)}

RECURSIVE Concat(_)
Concat(frames) ==
    IF frames = <<>> THEN <<>> ELSE Head(frames) \o Concat(Tail(frames))

\* the buffers that are a concatenation of 1..MaxFrames whole frames
WellFormedBuffers ==
    {Concat(fs) : fs \in UNION {[1..n -> FrameSet] : n \in 1..MaxFrames}}

\* whole frames followed by a frame that declares more bytes than remain,
\* and buffers too short to hold a header
MalformedBuffers ==
    {b \o TruncatedBuf : b \in {<<>>} \cup FrameSet} \cup {NoticeBuf, <<81, 0, 0>>}

FramingInputs == WellFormedBuffers \cup MalformedBuffers \cup {<<>>, StartupBuf}

\* the loop was not entered
NoFrames == [PacketTypes |-> <<>>, i |-> 0, end |-> 0, panic |-> FALSE]

\* the conditions under which a client read and a destination read are framed
FramedAsRequest(buffer) ==
    EncodeToString(buffer) # <<>> /\ ~isStartupPacket(buffer) /\ Len(buffer) > 5

FramedAsResponse(buffer) ==
    /\ EncodeToString(buffer) # <<>>
    /\ ~isStartupPacket(buffer) /\ Len(buffer) > 5 /\ EncodeToString(buffer) # TgEq

InitFraming ==
    /\ Idle("RECORD")
    /\ input \in FramingInputs
    /\ output = NoOutput

\* the body of case buffer := <-clientBufferChannel from bufStr on
FrameClientRead ==
    /\ output = NoOutput
    /\ \E lossy \in BOOLEAN :
         output' = [fn |-> "request",
                    frames |-> IF FramedAsRequest(input)
                               THEN BackendFrames(input, 0, <<>>) @@ [panic |-> FALSE]
                               ELSE NoFrames,
                    res |-> RequestEntries(input, lossy, 1)]
    /\ UNCHANGED <<sessionVars, input>>

\* the body of case buffer := <-destBufferChannel from bufStr on
FrameDestRead ==
    /\ output = NoOutput
    /\ \E lossy \in BOOLEAN, over \in SliceOutcomes :
         output' = [fn |-> "response",
                    frames |-> IF FramedAsResponse(input)
                               THEN FrontendFrames(input, 0, <<>>, over)
                               ELSE NoFrames,
                    res |-> ResponseEntries(input, lossy, over, 1)]
    /\ UNCHANGED <<sessionVars, input>>

NextFraming == FrameClientRead \/ FrameDestRead

SpecFraming == InitFraming /\ [][NextFraming]_vars

(***************************************************************************)
(* mysqlparser: decodeComInitDb, applied on its own.                       *)
(***************************************************************************)
\* a decoder that takes a lone command byte for a packet
decodeComInitDb_AcceptsOneByte(data) ==
    IF Len(data) < 1
    THEN [packet |-> <<>>, err |-> "data too short for COM_INIT_DB"]
    ELSE [packet |-> << [Status |-> data[1], DbName |-> SubSeq(data, 2, Len(data))] >>,
          err |-> "nil"]

\* decodeComInitDb: the *ComInitDbPacket is <<>> for nil and <<p>> for &p;
\* string(data[1:]) keeps the bytes as they are
decodeComInitDb(data) ==
    IF Len(data) < 2
    THEN [packet |-> <<>>, err |-> "data too short for COM_INIT_DB"]
    ELSE [packet |-> << [Status |-> data[1], DbName |-> SubSeq(data, 2, Len(data))] >>,
          err |-> "nil"]

\* the bytes the arguments are made of
ByteSample == {0, 2, 255}

ComInitDbInputs == UNION {[1..n -> ByteSample] : n \in 0..MaxData}

InitComInitDb ==
    /\ Idle("OTHER")
    /\ input \in ComInitDbInputs
    /\ output = NoOutput

DecodeComInitDb ==
    /\ output = NoOutput
    /\ output' = [fn |-> "decodeComInitDb", res |-> decodeComInitDb(input)]
    /\ UNCHANGED <<sessionVars, input>>

NextComInitDb == DecodeComInitDb

SpecComInitDb == InitComInitDb /\ [][NextComInitDb]_vars

(***************************************************************************)
(* Steps of the RECORD relay, recognised from the outside.                 *)
(***************************************************************************)
\* the relay takes case buffer := <-clientBufferChannel
ClientReadStep == nEvents' = nEvents + 1 /\ lastEvent' = "clientRead"

\* ... and its destConn.Write succeeds
ForwardedClientReadStep == ClientReadStep /\ Len(destWritten') = Len(destWritten) + 1

\* the relay takes case <-sigChan
SignalStep == sigPending /\ ~sigPending' /\ nEvents' = nEvents

\* the chunk that is pending in the accumulators
PendingChunk == Len(pgRequests) > 0 /\ Len(pgResponses) > 0

\* exactly one Mock is appended, and it holds the pending entries
OneMockAppended ==
    /\ Len(mocks') = Len(mocks) + 1
    /\ SubSeq(mocks', 1, Len(mocks)) = mocks
    /\ mocks'[Len(mocks')].PostgresRequests = pgRequests
    /\ mocks'[Len(mocks')].PostgresResponses = pgResponses

\* the entries of a list are in arrival order
InArrivalOrder(entries) ==
    \A j, k \in 1..Len(entries) : j < k => entries[j].at < entries[k].at

\* what C1 says of a step that handles a clientRead
C1Flush ==
    LET due == lastEvent = "destRead" /\ PendingChunk
    IN  /\ due <=> mocks' # mocks
        /\ due => /\ OneMockAppended
                  /\ InArrivalOrder(mocks'[Len(mocks')].PostgresRequests)
                  /\ InArrivalOrder(mocks'[Len(mocks')].PostgresResponses)
                  /\ \A k \in 1..Len(pgRequests) : pgRequests[k].at <= nEvents
                  /\ pgResponses' = <<>>
                  /\ \A k \in 1..Len(pgRequests') : pgRequests'[k].at = nEvents + 1

\* C1 as stated: in RECORD mode, handling a clientRead emits a Mock if and
\* only if the preceding event was a destRead and both lists are non-empty;
\* the Mock holds all pending entries in arrival order and not the request
\* that triggered it, and both lists are emptied before that request is
\* recorded.
C1_AsStated == [][ClientReadStep => C1Flush]_vars

\* C1 (amended): the same, for every clientRead whose buffer was forwarded
\* to the destination; when that write fails the relay returns the error and
\* emits no Mock, whatever is pending.
C1_FlushOnClientRead ==
    [][ /\ ForwardedClientReadStep => C1Flush
        /\ (ClientReadStep /\ ~ForwardedClientReadStep) =>
               (mocks' = mocks /\ pc' = "terminated" /\ retErr' = "writeErr") ]_vars

\* a clientRead flushed a Mock that holds two responses, and the request
\* that triggered it is the only entry left
C1_Witness ==
    /\ Len(mocks) = 1
    /\ mocks[1].case = "clientRead"
    /\ Len(mocks[1].PostgresResponses) = 2
    /\ Len(pgRequests) = 1
    /\ pgRequests[1].at = nEvents
    /\ pgResponses = <<>>

\* C2: every Mock passed to AppendMocks in RECORD mode, on either flush
\* path, has a non-empty request list and a non-empty response list.
C2_MocksNonEmpty ==
    \A k \in 1..Len(mocks) :
        Len(mocks[k].PostgresRequests) > 0 /\ Len(mocks[k].PostgresResponses) > 0

\* one Mock was flushed by a clientRead and a later one by the shutdown signal
C2_Witness ==
    /\ Len(mocks) = 2
    /\ mocks[1].case = "clientRead"
    /\ mocks[2].case = "shutdownSignal"

\* C3: a shutdown signal handled while both lists are non-empty and the last
\* event was not a client read appends exactly one final Mock holding the
\* pending entries, closes both connections and returns; handled in any
\* other state it appends no Mock.
C3_ShutdownFlush ==
    [][ SignalStep =>
          IF PendingChunk /\ lastEvent # "clientRead"
          THEN /\ OneMockAppended
               /\ clientClosed' /\ destClosed'
               /\ pc' = "terminated" /\ retErr' = "nil"
          ELSE mocks' = mocks ]_vars

\* the relay returned after the final flush, with both connections closed
C3_Witness ==
    /\ pc = "terminated"
    /\ clientClosed /\ destClosed
    /\ Len(mocks) >= 1
    /\ mocks[Len(mocks)].case = "shutdownSignal"

\* C4 as stated: every shutdown signal the relay handles leads to both
\* connections being closed and the loop being terminated, whatever is
\* pending.
C4_AsStated ==
    [][ SignalStep => (clientClosed' /\ destClosed' /\ pc' = "terminated") ]_vars

\* C5 as stated (its safety half): the relay never keeps waiting for events
\* while a reader has stopped on a read error.
C5_AsStated ==
    \A c \in Conns : rd[c].st = "done" => pc # "awaitingEvent"

(***************************************************************************)
(* Steps of the TEST loop, recognised from the outside.                    *)
(***************************************************************************)
\* matchingReadablePG was called in this step
MatcherStep == Len(matchCalls') = Len(matchCalls) + 1

LastCall(calls) == calls[Len(calls)]

\* the chunks of the bursts the Matcher did not match, in order
RECURSIVE UnmatchedBursts(_, _)
UnmatchedBursts(calls, k) ==
    IF k > Len(calls) THEN <<>>
    ELSE (IF calls[k].result = "unmatched" THEN calls[k].burst ELSE <<>>)
         \o UnmatchedBursts(calls, k + 1)

\* C6 as stated, for sessions whose termination was not requested: every
\* invocation of the Matcher receives exactly the chunks read from the client
\* during the current burst, and no chunk of an earlier burst.
C6_AsStated ==
    ~terminateInitiated =>
        \A k \in 1..Len(matchCalls) : matchCalls[k].input = matchCalls[k].burst

\* C7 as stated, for sessions whose termination was not requested: what was
\* handed to the destination is, for each unmatched burst, exactly that
\* burst's chunks, once and in order, and nothing else.
C7_AsStated ==
    (~terminateInitiated /\ pc # "terminated") =>
        destWritten = UnmatchedBursts(matchCalls, 1)

\* the encoding C8 prescribes for a response entry
C8Encoding(entry) ==
    IF Len(entry.PacketTypes) > 0 /\ Len(entry.Payload) = 0
    THEN PostgresDecoderFrontend(entry).bytes
    ELSE PostgresDecoder(entry.Payload).bytes

\* C8: when the Matcher returns matched = true, the buffers written to the
\* client are the encodings of the returned entries in the order returned,
\* one write per entry; an entry is encoded from its structural fields only
\* when its PacketTypes is non-empty and its Payload is empty, and from its
\* raw payload otherwise.  The writes stop short of the full list only when
\* an encoding or a write fails, and then the session returns that error.
C8_ReplayEncodings ==
    [][ (MatcherStep /\ LastCall(matchCalls').result = "matched") =>
          LET entries == LastCall(matchCalls').pgResponses
              before  == Len(clientWritten)
              n       == Len(clientWritten') - before
          IN  /\ 0 <= n /\ n <= Len(entries)
              /\ SubSeq(clientWritten', 1, before) = clientWritten
              /\ \A k \in 1..n : clientWritten'[before + k] = C8Encoding(entries[k])
              /\ IF n = Len(entries)
                 THEN pc' = "setDeadline" /\ retErr' = retErr
                 ELSE pc' = "terminated" /\ retErr' \in {"decodeErr", "writeErr"} ]_vars

\* an entry with packet types and a raw payload was replayed from the raw
\* payload, followed by a raw-only entry
C8_Witness ==
    /\ Len(matchCalls) >= 1
    /\ LastCall(matchCalls).result = "matched"
    /\ LastCall(matchCalls).pgResponses = <<BothEntry, RawEntry>>
    /\ clientWritten = <<DataRowBuf, NoticeBuf>>
    /\ pc = "setDeadline"

\* C9 as stated: when the Matcher query fails, the session does not end; the
\* captured burst is passed through to the destination and the loop goes on.
C9_AsStated ==
    [][ (MatcherStep /\ LastCall(matchCalls').result = "error") =>
          (pc' # "terminated" /\ destWritten' = destWritten \o pgRequests) ]_vars

\* C9 (amended): when the Matcher query fails, the session ends by returning
\* the matching error; nothing is passed through to the destination and
\* nothing is written to the client.
C9_MatchErrorEndsSession ==
    [][ (MatcherStep /\ LastCall(matchCalls').result = "error") =>
          /\ pc' = "terminated"
          /\ retErr' = "matchErr"
          /\ destWritten' = destWritten
          /\ clientWritten' = clientWritten ]_vars

\* the Matcher failed on a burst of two chunks and the session ended
C9_Witness ==
    /\ Len(matchCalls) >= 1
    /\ LastCall(matchCalls).result = "error"
    /\ Len(LastCall(matchCalls).input) = 2
    /\ pc = "terminated"
    /\ retErr = "matchErr"
    /\ destWritten = <<>>

\* C10 as stated: a client read that fails with a timeout ends the burst
\* without error, keeping the chunks read so far; a client read that fails
\* with EOF or another error ends the session by returning that error; no
\* failed read is appended to the burst as a chunk.
C10_AsStated ==
    [][ /\ (nReads' = nReads + 1 /\ lastRead'.err # "nil") =>
               (pc' = "terminated" /\ retErr' = lastRead'.err /\ pgRequests' = pgRequests)
        /\ (pc = "readBurst" /\ pc' \in {"matching", "setDeadline"}) =>
               (retErr' = retErr /\ pgRequests' = pgRequests) ]_vars

(***************************************************************************)
(* Forwarding, dispatch and the round-trip guard.                          *)
(***************************************************************************)
\* the relay takes case buffer := <-destBufferChannel
DestReadStep == nEvents' = nEvents + 1 /\ lastEvent' = "destRead"

\* C11: in RECORD mode the relay writes each buffer it takes from a data
\* channel to the opposite peer exactly as delivered, and before recording
\* it: a step that takes a client read appends that buffer to what was
\* written to the destination, a step that takes a destination read appends
\* it to what was written to the client, and only when the write fails is
\* nothing appended, and then the relay returns the error without recording
\* the buffer.  No other step writes, so the destination receives the initial
\* request buffer followed by the client reads in the order they completed,
\* and the client receives the destination reads in the order they completed.
C11_ForwardedInOrder ==
    [][ /\ pc = "start" => destWritten' \in {<<>>, <<requestBuffer>>}
        /\ pc = "start" => clientWritten' = <<>>
        /\ ClientReadStep =>
              \/ destWritten' = Append(destWritten, rd["client"].buf)
              \/ /\ destWritten' = destWritten
                 /\ pgRequests' = pgRequests /\ mocks' = mocks
                 /\ pc' = "terminated" /\ retErr' = "writeErr"
        /\ DestReadStep =>
              \/ clientWritten' = Append(clientWritten, rd["dest"].buf)
              \/ /\ clientWritten' = clientWritten
                 /\ pgResponses' = pgResponses
                 /\ pc' = "terminated" /\ retErr' = "writeErr"
        /\ (pc # "start" /\ ~ClientReadStep) => destWritten' = destWritten
        /\ (pc # "start" /\ ~DestReadStep) => clientWritten' = clientWritten ]_vars

\* two client reads and one destination read were forwarded after the
\* initial request buffer
C11_Witness ==
    /\ destWritten = <<StartupBuf, QueryBuf, SyncBuf>>
    /\ clientWritten = <<CompleteReadyBuf>>
    /\ Len(pgRequests) = 2
    /\ Len(pgResponses) = 1

\* C12: ProcessOutgoing selects the path by mode.  In RECORD only the relay
\* runs and the Matcher is never queried; in TEST only the match/replay loop
\* runs, no reader goroutine is started and AppendMocks is never called; in
\* any other mode the call returns having read nothing, written nothing,
\* closed nothing, and called neither AppendMocks nor the Matcher.
C12_ModeDispatch ==
    /\ mode = "RECORD" =>
          /\ pc \in {"start", "awaitingEvent", "terminated", "panicked"}
          /\ matchCalls = <<>> /\ burst = <<>>
    /\ mode = "TEST" =>
          /\ pc \in {"start", "setDeadline", "readBurst", "matching", "terminated"}
          /\ mocks = <<>>
          /\ \A c \in Conns : rd[c] = NotStarted
          /\ ~clientClosed /\ ~destClosed
    /\ mode \notin {"RECORD", "TEST"} =>
          /\ pc \in {"start", "terminated"}
          /\ nReads = 0
          /\ destWritten = <<>> /\ clientWritten = <<>>
          /\ ~clientClosed /\ ~destClosed
          /\ mocks = <<>> /\ matchCalls = <<>>
          /\ \A c \in Conns : rd[c] = NotStarted
          /\ retErr = "nil"

\* ProcessOutgoing returned in a mode that is neither RECORD nor TEST
C12_Witness ==
    /\ mode = "OTHER"
    /\ pc = "terminated"
    /\ requestBuffer = StartupBuf

\* every entry the relay has recorded: flushed into a Mock or still pending
RecordedRequests ==
    {pgRequests[k] : k \in 1..Len(pgRequests)} \cup
    UNION {{mocks[j].PostgresRequests[k] : k \in 1..Len(mocks[j].PostgresRequests)} :
              j \in 1..Len(mocks)}

RecordedResponses ==
    {pgResponses[k] : k \in 1..Len(pgResponses)} \cup
    UNION {{mocks[j].PostgresResponses[k] : k \in 1..Len(mocks[j].PostgresResponses)} :
              j \in 1..Len(mocks)}

\* the entry was built by framing a read buffer
Framed(e) == e.Identfier \in {"ClientRequest", "ServerResponse"}

\* the round trip of the entry changed the length, and its first packet type
\* is not the exempted one
RoundTripFailed(e, exempted) ==
    /\ e.afterEncoded # Len(e.buffer)
    /\ e.PacketTypes # <<>>
    /\ e.PacketTypes[1] # exempted

\* C13: every framed request entry and response entry, pending or stored in
\* a Mock, whose re-encoding has another length than the buffer it was built
\* from and whose first packet type is not the exempted one ('p' for a
\* request, 'R' for a response) carries the base64 of that buffer as Payload.
C13_RoundTripGuard ==
    /\ \A e \in RecordedRequests :
          (Framed(e) /\ RoundTripFailed(e, 112)) => e.Payload = EncodeToString(e.buffer)
    /\ \A e \in RecordedResponses :
          (Framed(e) /\ RoundTripFailed(e, 82)) => e.Payload = EncodeToString(e.buffer)

\* a Mock holds a request entry and a response entry that both failed the
\* round trip and carry the raw payload
C13_Witness ==
    /\ Len(mocks) = 1
    /\ \E e \in {mocks[1].PostgresRequests[k] : k \in 1..Len(mocks[1].PostgresRequests)} :
          Framed(e) /\ RoundTripFailed(e, 112) /\ e.Payload = EncodeToString(QueryBuf)
    /\ \E e \in {mocks[1].PostgresResponses[k] : k \in 1..Len(mocks[1].PostgresResponses)} :
          Framed(e) /\ RoundTripFailed(e, 82) /\ e.Payload = EncodeToString(CompleteReadyBuf)

(***************************************************************************)
(* The framing of a buffer.                                                *)
(***************************************************************************)
\* C14 as stated: for every buffer, in both directions, when a frame
\* declares more bytes than remain, framing halts before that frame: no
\* slice ends past the end of the buffer, the slice expression does not
\* fault, and the frame index does not pass the length of the buffer.
C14_AsStated ==
    output.fn \in {"request", "response"} =>
        /\ ~output.frames.panic
        /\ output.frames.end <= Len(input)
        /\ output.frames.i <= Len(input)

\* the tags of the frames of a buffer, read header by header until fewer
\* than 5 bytes remain
RECURSIVE FrameTags(_, _)
FrameTags(buffer, i) ==
    IF Len(buffer) - i < 5 THEN <<>>
    ELSE <<buffer[i + 1]>> \o FrameTags(buffer, i + 5 + (Uint32(buffer, i + 1) - 4))

\* C15 as stated: for a buffer that is a concatenation of whole frames the
\* framer, in either direction, yields every frame in order and stops at the
\* end of the buffer, a final frame with an empty body included, and the
\* recorded entry has one packet type per frame.
C15_AsStated ==
    (input \in WellFormedBuffers /\ output.fn \in {"request", "response"}) =>
        /\ output.frames.PacketTypes = FrameTags(input, 0)
        /\ output.frames.i = Len(input)
        /\ ~output.res.panic
        /\ Len(output.res.entries) = 1
        /\ output.res.entries[1].PacketTypes = FrameTags(input, 0)

(***************************************************************************)
(* Failures while recording.                                               *)
(***************************************************************************)
\* the entries of a Mock, requests and responses
EntriesOf(mock) ==
    {mock.PostgresRequests[k] : k \in 1..Len(mock.PostgresRequests)} \cup
    {mock.PostgresResponses[k] : k \in 1..Len(mock.PostgresResponses)}

\* the client read of this step flushed a chunk and AppendMocks failed
FailedFlushStep ==
    /\ ClientReadStep
    /\ Len(mocks') = Len(mocks) + 1
    /\ ~mocks'[Len(mocks')].stored

\* no entry of an earlier Mock is handed to AppendMocks again, nor kept in
\* the accumulators
NoChunkTwice ==
    \A j \in 1..Len(mocks) : \A e \in EntriesOf(mocks[j]) :
        /\ \A k \in (j + 1)..Len(mocks) : \A f \in EntriesOf(mocks[k]) : e.at < f.at
        /\ \A f \in RecordedRequests \ UNION {EntriesOf(mocks[k]) : k \in 1..Len(mocks)} :
              e.at < f.at
        /\ \A k \in 1..Len(pgResponses) : e.at < pgResponses[k].at

\* C16: when AppendMocks fails during the flush of a client read the relay
\* does not return and reports no error; the chunk is appended once and
\* dropped from both lists, and the request that triggered the flush is then
\* handled as every client read is: its entry is the only thing the request
\* list holds, and the relay awaits the next event (it leaves the loop only
\* when the framing of that request itself faults, as after a successful
\* Append).  No entry of a flushed chunk is ever handed to AppendMocks again.
C16_AppendFailureIsNotFatal ==
    /\ []NoChunkTwice
    /\ [][ FailedFlushStep =>
             LET buffer == rd["client"].buf
                 faults == RequestEntries(buffer, FALSE, nEvents + 1).panic
             IN  /\ OneMockAppended
                 /\ retErr' = retErr
                 /\ pc' = IF faults THEN "panicked" ELSE "awaitingEvent"
                 /\ pgResponses' = <<>>
                 /\ \E lossy \in BOOLEAN :
                       pgRequests' = RequestEntries(buffer, lossy, nEvents + 1).entries
                 /\ ~faults => isPreviousChunkRequest' ]_vars

\* AppendMocks failed on the first chunk; the relay went on, and the final
\* flush holds only what was recorded after it
C16_Witness ==
    /\ Len(mocks) = 2
    /\ mocks[1].case = "clientRead" /\ ~mocks[1].stored
    /\ mocks[2].case = "shutdownSignal"
    /\ Len(mocks[2].PostgresRequests) = 1
    /\ mocks[2].PostgresRequests[1].at > mocks[1].PostgresResponses[1].at

(***************************************************************************)
(* decodeComInitDb.                                                        *)
(***************************************************************************)
\* C17: decodeComInitDb returns an error and no packet for every input
\* shorter than 2 bytes; for every input of 2 or more bytes it returns no
\* error and a packet whose Status is byte 0 and whose DbName is the
\* remaining bytes, in order, none dropped and none added.
C17_DecodeComInitDb ==
    output.fn = "decodeComInitDb" =>
        IF Len(input) < 2
        THEN output.res.err # "nil" /\ output.res.packet = <<>>
        ELSE /\ output.res.err = "nil"
             /\ Len(output.res.packet) = 1
             /\ output.res.packet[1].Status = input[1]
             /\ Len(output.res.packet[1].DbName) = Len(input) - 1
             /\ \A k \in 1..(Len(input) - 1) :
                   output.res.packet[1].DbName[k] = input[k + 1]

\* a three-byte input was decoded into its status and a two-byte name
C17_Witness ==
    /\ output.fn = "decodeComInitDb"
    /\ input = <<2, 0, 255>>
    /\ output.res.err = "nil"
    /\ output.res.packet = << [Status |-> 2, DbName |-> <<0, 255>>] >>

(***************************************************************************)
(* What a read adds to the lists.                                          *)
(***************************************************************************)
\* ... and its clientConn.Write succeeds
ForwardedDestReadStep == DestReadStep /\ Len(clientWritten') = Len(clientWritten) + 1

\* some frame of the buffer declares more bytes than remain
RECURSIVE Overlong(_, _)
Overlong(buffer, i) ==
    IF Len(buffer) - i < 5 THEN FALSE
    ELSE LET next == i + 5 + (Uint32(buffer, i + 1) - 4)
         IN  IF next > Len(buffer) THEN TRUE ELSE Overlong(buffer, next)

\* the step appended one entry for the buffer, carrying its raw payload
RecordedRaw(before, after, buffer) ==
    /\ Len(after) >= 1
    /\ after[Len(after)].at = nEvents + 1
    /\ after[Len(after)].Payload = EncodeToString(buffer)
    /\ \A k \in 1..(Len(after) - 1) : after[k].at <= nEvents

\* C18 as stated: a read, from the client or from the destination, in which
\* a frame declares a length that exceeds the buffer (the first frame
\* included) does not crash or end the relay: the read is recorded as an
\* entry carrying the raw payload and the loop awaits the next event.
C18_AsStated ==
    [][ /\ (ForwardedClientReadStep /\ Overlong(rd["client"].buf, 0)) =>
              (pc' = "awaitingEvent" /\ RecordedRaw(pgRequests, pgRequests', rd["client"].buf))
        /\ (ForwardedDestReadStep /\ Overlong(rd["dest"].buf, 0)) =>
              (pc' = "awaitingEvent" /\ RecordedRaw(pgResponses, pgResponses', rd["dest"].buf)) ]_vars

\* the entries of a list that were appended by the step being taken
NewEntries(after) == {k \in 1..Len(after) : after[k].at = nEvents + 1}

\* C19 as stated, for reads the relay survives: every non-empty client read
\* that was forwarded appends exactly one entry to the request list, a
\* StartupRequest entry for a startup frame and a framed entry otherwise,
\* whatever its length; every non-empty destination read that was forwarded
\* appends exactly one entry to the response list.
C19_AsStated ==
    [][ /\ (/\ ForwardedClientReadStep
            /\ rd["client"].buf # <<>>
            /\ pc' = "awaitingEvent") =>
               /\ Cardinality(NewEntries(pgRequests')) = 1
               /\ pgRequests'[Len(pgRequests')].Identfier =
                     IF isStartupPacket(rd["client"].buf)
                     THEN "StartupRequest" ELSE "ClientRequest"
        /\ (/\ ForwardedDestReadStep
            /\ rd["dest"].buf # <<>>
            /\ pc' = "awaitingEvent") =>
               Cardinality(NewEntries(pgResponses')) = 1 ]_vars

(***************************************************************************)
(* The readers after the relay has returned.                               *)
(***************************************************************************)
\* ReadBuffConn of connection c is blocked on a send: of a buffer on its
\* data channel, or of an error on errChannel
BlockedOnSend(c) == rd[c].st \in {"sendBuf", "sendErr"}

\* C20 as stated, in its safety form: once encodePostgresOutgoing has
\* returned, no reader is blocked on a send.  The channels are unbuffered
\* and local to the relay, so after its return nothing receives from them:
\* a reader found blocked on a send then stays blocked forever.
C20_AsStated ==
    pc = "terminated" => \A c \in Conns : ~BlockedOnSend(c)

(***************************************************************************)
(* Read errors after termination was requested.                            *)
(***************************************************************************)
\* the relay takes from a data channel what ReadBuffConn of connection c
\* sent after a read that failed
FailedReadTaken(c) ==
    /\ rd[c].st = "sendBuf"
    /\ rd[c].err # "nil"
    /\ rd'[c].st = "reading"

\* C21 as stated: once termination has been requested a read error is not
\* published on the error channel and is not delivered to the relay as a
\* clientRead or destRead event either: the relay takes no event for it and
\* its request list, response list, last-event-was-request marker and Mocks
\* stay as they are.
C21_AsStated ==
    [][ /\ \A c \in Conns :
              (terminateInitiated /\ rd[c].st = "reading" /\ rd'[c].err # "nil") =>
                  rd'[c].st # "sendErr"
        /\ \A c \in Conns :
              FailedReadTaken(c) =>
                  /\ nEvents' = nEvents
                  /\ UNCHANGED <<pgRequests, pgResponses, isPreviousChunkRequest, mocks>> ]_vars

(***************************************************************************)
(* The contents of a Mock.                                                 *)
(***************************************************************************)
\* C22 as stated: in every Mock handed to AppendMocks every request entry
\* was read before every response entry of that Mock.
C22_AsStated ==
    \A j \in 1..Len(mocks) :
        \A r \in 1..Len(mocks[j].PostgresRequests) :
            \A s \in 1..Len(mocks[j].PostgresResponses) :
                mocks[j].PostgresRequests[r].at < mocks[j].PostgresResponses[s].at

\* the times of the entries of a list
TimesOf(entries) == {entries[k].at : k \in 1..Len(entries)}

\* C23: in every Mock handed to AppendMocks, by the flush of a client read
\* or by the final flush, the request timestamp is not later than the
\* response timestamp, and the response timestamp was taken at the end of a
\* destination read that is not earlier than any response of the Mock; the
\* responses of a Mock are all later than every entry of the Mock before it,
\* so the timestamp is later than the previous flush and differs from the
\* one of the previous Mock.
C23_Timestamps ==
    \A j \in 1..Len(mocks) :
        /\ mocks[j].ReqTimestampMock <= mocks[j].ResTimestampMock
        /\ \E k \in 1..nEvents :
              /\ mocks[j].ResTimestampMock = EndTime(k)
              /\ \A t \in TimesOf(mocks[j].PostgresResponses) : t <= k
        /\ j > 1 =>
              /\ mocks[j - 1].ResTimestampMock < mocks[j].ResTimestampMock
              /\ \A t \in TimesOf(mocks[j].PostgresResponses) :
                    /\ EndTime(t) > mocks[j - 1].ResTimestampMock
                    /\ \A e \in EntriesOf(mocks[j - 1]) : e.at < t

\* a Mock flushed by a client read and a final Mock, each stamped by the
\* destination read of its own chunk
C23_Witness ==
    /\ Len(mocks) = 2
    /\ mocks[1].case = "clientRead"
    /\ mocks[1].ReqTimestampMock = 0
    /\ mocks[1].ResTimestampMock = EndTime(1)
    /\ mocks[2].case = "shutdownSignal"
    /\ mocks[2].ReqTimestampMock = StartTime(3)
    /\ mocks[2].ResTimestampMock = EndTime(3)

====
